---- MODULE Spec2Model ----
(***************************************************************************)
(* Effect lifecycle controller of OpenRGBClient (src/src/main.py) with the *)
(* effects of the core-effects plugin                                      *)
(* (src/plugins/core-effects/core-effects.py).                             *)
(*                                                                         *)
(* One foreground context (the main thread) issues selectDeviceByName,     *)
(* setEffect and _stop_current_effect calls; a signal handler can          *)
(* interrupt it between any two statements; looped effects run on worker   *)
(* threads.  Every statement of setEffect, _stop_current_effect,           *)
(* signal_handler and of the effect functions is one step.                 *)
(***************************************************************************)
EXTENDS Integers, Sequences, FiniteSets, TLC

\* ------------------------------------------------------------------ bounds
MaxThreads == 2        \* threads created over one run
MaxSignals == 1        \* shutdown signals delivered over one run
SmallLen == 2          \* LED count of the small device
BigLen == 19           \* LED count of the large device
MaxDirs == 2           \* plugin directories under plugins_dir
MaxDeps == 2           \* dependencies one manifest declares
MaxZones == 2          \* sub-zones of a combined zone
MaxZoneLeds == 5       \* LED count, and colour list length, of a sub-zone
MaxHueLen == 20        \* zone length rainbowCycle is run on
MaxPasses == 4         \* render passes of rainbowCycle followed
HueWrap == 360         \* % 360 in rainbowCycle
OffsetStep == 5        \* offset += 5 in rainbowCycle

\* --------------------------------------------------------------- constants
HueStop == 360         \* range(0, 360, step) in rainbow

VARIABLES
  selected_device,     \* hasattr(self, 'selected_device')
  leds,                \* LED count of the device named on the command line
  effect_thread,       \* self.effect_thread: 0 is None, else a thread id
  shutdown_event,      \* self.shutdown_event (one Event, shared by all workers)
  threads,             \* every Thread object created so far, by id
  mainpc,              \* statement the foreground context is at
  call,                \* the call in progress, or the last one once idle
  mi,                  \* loop index of a single-shot effect on the main thread
  sigpc,               \* statement the signal handler is at ("none": not running)
  nsig                 \* signals delivered so far

\* PluginManager (src/src/pluginLib.py) and the registry built from it
VARIABLES
  dirs,                \* the manifest.json files under plugins_dir, in sorted path order
  manifests,           \* self._manifests: name -> path, in insertion order
  loaded,              \* self._loaded: name -> Plugin, in insertion order
  load_errors,         \* self._load_errors: key -> kind of exception
  installs,            \* pip invocations made so far, in order
  executed,            \* paths of the manifests whose module was executed, in order
  warned,              \* "Function ... not found" messages printed
  pm,                  \* where __init__ of PluginManager is, with its locals
  catalog              \* OpenRGBClient.effects, once _bundle_effects has run

pmv == <<dirs, manifests, loaded, load_errors, installs, executed, warned, pm, catalog>>

\* CombinedLinearZone (src/src/main.py)
VARIABLES
  zones,               \* self.zones: per sub-zone its LED count and colour list
  colors,              \* self.colors, the combined buffer
  index,               \* show(): index
  zi,                  \* show(): position of z in self.zones
  sent,                \* segments handed to set_colors, in order
  czpc                 \* statement the zone code is at

czv == <<zones, colors, index, zi, sent, czpc>>

\* one rainbowCycle invocation (src/plugins/core-effects/core-effects.py)
VARIABLES
  hn,                  \* len(zone.colors)
  hues,                \* zone.colors, as the hue given to RGBColor.fromHSV
  offset,              \* offset
  hi,                  \* i
  passes,              \* render passes completed (show() calls)
  hpc                  \* statement rainbowCycle is at

cycv == <<hn, hues, offset, hi, passes, hpc>>

\* the state of the parts a controller step does not touch
aux == <<pmv, czv, cycv>>

\* the state of the lifecycle controller
ctl == <<selected_device, leds, effect_thread, shutdown_event, threads,
         mainpc, call, mi, sigpc, nsig>>

vars == <<selected_device, leds, effect_thread, shutdown_event, threads,
          mainpc, call, mi, sigpc, nsig, aux>>

\* ------------------------------------------------------------------ catalog
\* self.effects: effect key -> FunctionMetadata (func, looped)
effects ==
  [k \in {"core-effects.rainbowCycle", "core-effects.alternate", "core-effects.rainbow"} |->
     CASE k = "core-effects.rainbowCycle" -> [func |-> "rainbowCycle", looped |-> TRUE]
       [] k = "core-effects.alternate"    -> [func |-> "alternate",    looped |-> TRUE]
       [] OTHER                           -> [func |-> "rainbow",      looped |-> FALSE]]

\* keys a caller may pass: the catalog's and one that is not in it
Keys == DOMAIN effects \cup {"core-effects.nope"}

LedCounts == {SmallLen, BigLen}

\* len(range(start, stop, step)) for step > 0
RangeLen(start, stop, step) ==
  IF stop <= start THEN 0 ELSE (stop - start + step - 1) \div step

\* ------------------------------------------------------------------ threads
NoCall == [op |-> "none", key |-> "", raised |-> "none", stopped |-> FALSE, shown |-> FALSE]

NewThread(k, n) ==
  [key |-> k, func |-> effects[k].func, n |-> n, st |-> "created",
   pc |-> "w_check", i |-> 0, exit |-> "none"]

\* Thread.is_alive()
is_alive(t) == t # 0 /\ threads[t].st = "alive"

AliveThreads == {t \in 1..Len(threads) : threads[t].st = "alive"}

\* the foreground context runs main-thread code only while no handler is active
MainRuns == sigpc = "none" /\ mainpc # "exited"

\* the plugin manager has not been given any directory
PmIdle ==
  /\ dirs = <<>>
  /\ manifests = <<>>
  /\ loaded = <<>>
  /\ load_errors = <<>>
  /\ installs = <<>>
  /\ executed = <<>>
  /\ warned = {}
  /\ pm = [pc |-> "off", di |-> 0, li |-> 0, dj |-> 0, fj |-> 0, functions |-> <<>>]
  /\ catalog = <<>>

\* no combined zone has been built
CzIdle ==
  /\ zones = <<>>
  /\ colors = <<>>
  /\ index = 0
  /\ zi = 0
  /\ sent = <<>>
  /\ czpc = "off"

\* no rainbowCycle invocation is being followed
CycIdle ==
  /\ hn = 0
  /\ hues = <<>>
  /\ offset = 0
  /\ hi = 0
  /\ passes = 0
  /\ hpc = "off"

\* OpenRGBClient.__init__ and the installed signal handler
CtlInit ==
  /\ selected_device = FALSE
  /\ leds \in LedCounts
  /\ effect_thread = 0
  /\ shutdown_event = FALSE
  /\ threads = <<>>
  /\ mainpc = "idle"
  /\ call = NoCall
  /\ mi = 0
  /\ sigpc = "none"
  /\ nsig = 0

Init == CtlInit /\ PmIdle /\ CzIdle /\ CycIdle

\* what a call leaves in `call` when it returns or raises
Return(raisedKind) ==
  /\ mainpc' = "idle"
  /\ call' = [call EXCEPT !.raised = raisedKind]

\* ------------------------------------------------------- selectDeviceByName
selectDeviceByName(found) ==
  /\ MainRuns /\ mainpc = "idle"
  /\ selected_device' = (selected_device \/ found)
  /\ call' = [NoCall EXCEPT !.op = "selectDeviceByName"]
  /\ UNCHANGED <<aux, leds, effect_thread, shutdown_event, threads, mainpc, mi, sigpc, nsig>>

\* ----------------------------------------------------- _stop_current_effect
\* a direct call of _stop_current_effect by the foreground context
stop ==
  /\ MainRuns /\ mainpc = "idle"
  /\ mainpc' = "stop_check"
  /\ call' = [NoCall EXCEPT !.op = "stop"]
  /\ UNCHANGED <<aux, selected_device, leds, effect_thread, shutdown_event, threads, mi, sigpc, nsig>>

\* where control goes when _stop_current_effect returns
AfterStop == IF call.op = "setEffect" THEN "se_clear" ELSE "idle"

\* if self.effect_thread and self.effect_thread.is_alive():
StopCheck_NoAliveTest ==
  /\ MainRuns /\ mainpc = "stop_check"
  /\ IF effect_thread # 0
       THEN /\ mainpc' = "stop_set"
            /\ call' = [call EXCEPT !.stopped = TRUE]
       ELSE /\ mainpc' = AfterStop
            /\ call' = call
  /\ UNCHANGED <<aux, selected_device, leds, effect_thread, shutdown_event, threads, mi, sigpc, nsig>>

StopCheck ==
  /\ MainRuns /\ mainpc = "stop_check"
  /\ IF is_alive(effect_thread)
       THEN /\ mainpc' = "stop_set"
            /\ call' = [call EXCEPT !.stopped = TRUE]
       ELSE /\ mainpc' = AfterStop
            /\ call' = call
  /\ UNCHANGED <<aux, selected_device, leds, effect_thread, shutdown_event, threads, mi, sigpc, nsig>>

\* self.shutdown_event.set()
StopSet ==
  /\ MainRuns /\ mainpc = "stop_set"
  /\ shutdown_event' = TRUE
  /\ mainpc' = "stop_join"
  /\ UNCHANGED <<aux, selected_device, leds, effect_thread, threads, call, mi, sigpc, nsig>>

\* self.effect_thread.join()
StopJoin_NoWait ==
  /\ MainRuns /\ mainpc = "stop_join"
  /\ mainpc' = "stop_none"
  /\ UNCHANGED <<aux, selected_device, leds, effect_thread, shutdown_event, threads, call, mi, sigpc, nsig>>

StopJoin ==
  /\ MainRuns /\ mainpc = "stop_join"
  /\ ~is_alive(effect_thread)
  /\ mainpc' = "stop_none"
  /\ UNCHANGED <<aux, selected_device, leds, effect_thread, shutdown_event, threads, call, mi, sigpc, nsig>>

\* self.effect_thread = None
StopClear_KeepHandle ==
  /\ MainRuns /\ mainpc = "stop_none"
  /\ mainpc' = AfterStop
  /\ UNCHANGED <<aux, selected_device, leds, effect_thread, shutdown_event, threads, call, mi, sigpc, nsig>>

StopClear ==
  /\ MainRuns /\ mainpc = "stop_none"
  /\ effect_thread' = 0
  /\ mainpc' = AfterStop
  /\ UNCHANGED <<aux, selected_device, leds, shutdown_event, threads, call, mi, sigpc, nsig>>

\* ---------------------------------------------------------------- setEffect
\* entry of setEffect: the selected-device test, the zone and self.step
setEffect(key) ==
  /\ MainRuns /\ mainpc = "idle"
  /\ (key \in DOMAIN effects /\ effects[key].looped) => Len(threads) < MaxThreads
  /\ call' = [NoCall EXCEPT !.op = "setEffect", !.key = key]
  /\ mainpc' = IF selected_device THEN "se_lookup" ELSE "idle"
  /\ UNCHANGED <<aux, selected_device, leds, effect_thread, shutdown_event, threads, mi, sigpc, nsig>>

\* effect_func = self.effects[effect_name] raises KeyError -> ValueError
SeUnknown_StopFirst ==
  /\ MainRuns /\ mainpc = "se_lookup"
  /\ call.key \notin DOMAIN effects
  /\ shutdown_event' = (shutdown_event \/ is_alive(effect_thread))
  /\ Return("ValueError")
  /\ UNCHANGED <<aux, selected_device, leds, effect_thread, threads, mi, sigpc, nsig>>

SeUnknown ==
  /\ MainRuns /\ mainpc = "se_lookup"
  /\ call.key \notin DOMAIN effects
  /\ Return("ValueError")
  /\ UNCHANGED <<aux, selected_device, leds, effect_thread, shutdown_event, threads, mi, sigpc, nsig>>

\* if effect_func.looped: self._stop_current_effect() ...
SeLooped_NoStop ==
  /\ MainRuns /\ mainpc = "se_lookup"
  /\ call.key \in DOMAIN effects /\ effects[call.key].looped
  /\ mainpc' = "se_clear"
  /\ UNCHANGED <<aux, selected_device, leds, effect_thread, shutdown_event, threads, call, mi, sigpc, nsig>>

SeLooped ==
  /\ MainRuns /\ mainpc = "se_lookup"
  /\ call.key \in DOMAIN effects /\ effects[call.key].looped
  /\ mainpc' = "stop_check"
  /\ UNCHANGED <<aux, selected_device, leds, effect_thread, shutdown_event, threads, call, mi, sigpc, nsig>>

\* else: effect_func(self.zone, self.step, self.shutdown_event)
SeSingle_ClearsSignal ==
  /\ MainRuns /\ mainpc = "se_lookup"
  /\ call.key \in DOMAIN effects /\ ~effects[call.key].looped
  /\ shutdown_event' = FALSE
  /\ mainpc' = "rb_iter"
  /\ mi' = 0
  /\ UNCHANGED <<aux, selected_device, leds, effect_thread, threads, call, sigpc, nsig>>

SeSingle ==
  /\ MainRuns /\ mainpc = "se_lookup"
  /\ call.key \in DOMAIN effects /\ ~effects[call.key].looped
  /\ mainpc' = "rb_iter"
  /\ mi' = 0
  /\ UNCHANGED <<aux, selected_device, leds, effect_thread, shutdown_event, threads, call, sigpc, nsig>>

\* self.shutdown_event.clear()
SeClear_NoClear ==
  /\ MainRuns /\ mainpc = "se_clear"
  /\ mainpc' = "se_create"
  /\ UNCHANGED <<aux, selected_device, leds, effect_thread, shutdown_event, threads, call, mi, sigpc, nsig>>

SeClear ==
  /\ MainRuns /\ mainpc = "se_clear"
  /\ shutdown_event' = FALSE
  /\ mainpc' = "se_create"
  /\ UNCHANGED <<aux, selected_device, leds, effect_thread, threads, call, mi, sigpc, nsig>>

\* self.effect_thread = threading.Thread(target=effect_func, args=(zone, step, event))
SeCreate ==
  /\ MainRuns /\ mainpc = "se_create"
  /\ threads' = Append(threads, NewThread(call.key, leds))
  /\ effect_thread' = Len(threads) + 1
  /\ mainpc' = "se_start"
  /\ UNCHANGED <<aux, selected_device, leds, shutdown_event, call, mi, sigpc, nsig>>

\* self.effect_thread.start(), then setEffect returns
SeStart ==
  /\ MainRuns /\ mainpc = "se_start"
  /\ threads' = [threads EXCEPT ![effect_thread].st = "alive"]
  /\ Return("none")
  /\ UNCHANGED <<aux, selected_device, leds, effect_thread, shutdown_event, mi, sigpc, nsig>>

\* ------------------------------------------- rainbow (single-shot, on caller)
\* for i, hue in enumerate(range(0, 360, step)): zone.colors[i] = ...
rainbow_iter ==
  /\ MainRuns /\ mainpc = "rb_iter"
  /\ IF mi < RangeLen(0, HueStop, leds)
       THEN IF mi < leds
              THEN /\ mi' = mi + 1
                   /\ UNCHANGED <<mainpc, call>>
              ELSE /\ mi' = 0                      \* IndexError
                   /\ Return("IndexError")
       ELSE /\ mainpc' = "rb_show"
            /\ UNCHANGED <<mi, call>>
  /\ UNCHANGED <<aux, selected_device, leds, effect_thread, shutdown_event, threads, sigpc, nsig>>

\* zone.show(): commits the buffer, or the device transport raises
rainbow_show(ok) ==
  /\ MainRuns /\ mainpc = "rb_show"
  /\ mi' = 0
  /\ mainpc' = "idle"
  /\ call' = IF ok THEN [call EXCEPT !.shown = TRUE]
                   ELSE [call EXCEPT !.raised = "DeviceError"]
  /\ UNCHANGED <<aux, selected_device, leds, effect_thread, shutdown_event, threads, sigpc, nsig>>

\* ----------------------------- rainbowCycle, alternate (looped, on a worker)
Exit(t, why) ==
  threads' = [threads EXCEPT ![t].st = "done", ![t].pc = "w_done", ![t].i = 0, ![t].exit = why]

\* while not shutdown_event.is_set():
WorkerCheck_IgnoresSignal(t) ==
  /\ threads[t].st = "alive" /\ threads[t].pc = "w_check"
  /\ threads' = [threads EXCEPT ![t].pc = "w_render", ![t].i = 0]
  /\ UNCHANGED <<aux, selected_device, leds, effect_thread, shutdown_event, mainpc, call, mi, sigpc, nsig>>

WorkerCheck(t) ==
  /\ threads[t].st = "alive" /\ threads[t].pc = "w_check"
  /\ IF shutdown_event
       THEN Exit(t, "cancelled")
       ELSE threads' = [threads EXCEPT ![t].pc = "w_render", ![t].i = 0]
  /\ UNCHANGED <<aux, selected_device, leds, effect_thread, shutdown_event, mainpc, call, mi, sigpc, nsig>>

\* for i in range(len(zone.colors)): zone.colors[i] = ...
WorkerRender(t) ==
  /\ threads[t].st = "alive" /\ threads[t].pc = "w_render"
  /\ IF threads[t].i < threads[t].n
       THEN threads' = [threads EXCEPT ![t].i = @ + 1]
       ELSE threads' = [threads EXCEPT ![t].pc = "w_show"]
  /\ UNCHANGED <<aux, selected_device, leds, effect_thread, shutdown_event, mainpc, call, mi, sigpc, nsig>>

\* zone.show(); offset += ...
WorkerShow(t, ok) ==
  /\ threads[t].st = "alive" /\ threads[t].pc = "w_show"
  /\ IF ok
       THEN threads' = [threads EXCEPT ![t].pc = "w_wait", ![t].i = 0]
       ELSE Exit(t, "fault")
  /\ UNCHANGED <<aux, selected_device, leds, effect_thread, shutdown_event, mainpc, call, mi, sigpc, nsig>>

\* shutdown_event.wait(t): returns on timeout or as soon as the event is set
WorkerWait(t) ==
  /\ threads[t].st = "alive" /\ threads[t].pc = "w_wait"
  /\ threads' = [threads EXCEPT ![t].pc = "w_check"]
  /\ UNCHANGED <<aux, selected_device, leds, effect_thread, shutdown_event, mainpc, call, mi, sigpc, nsig>>

\* ----------------------------------------------------------- signal_handler
\* SIGINT or SIGTERM is delivered: the handler runs on the main thread,
\* between two of its statements (also inside a handler already running)
Signal ==
  /\ mainpc # "exited"
  /\ nsig < MaxSignals
  /\ nsig' = nsig + 1
  /\ sigpc' = "h_set"
  /\ UNCHANGED <<aux, selected_device, leds, effect_thread, shutdown_event, threads, mainpc, call, mi>>

\* client.shutdown_event.set()
HandlerSet_NoSet ==
  /\ sigpc = "h_set"
  /\ sigpc' = "h_check"
  /\ UNCHANGED <<aux, selected_device, leds, effect_thread, shutdown_event, threads, mainpc, call, mi, nsig>>

HandlerSet ==
  /\ sigpc = "h_set"
  /\ shutdown_event' = TRUE
  /\ sigpc' = "h_check"
  /\ UNCHANGED <<aux, selected_device, leds, effect_thread, threads, mainpc, call, mi, nsig>>

\* if client.effect_thread and client.effect_thread.is_alive():
HandlerCheck ==
  /\ sigpc = "h_check"
  /\ sigpc' = IF is_alive(effect_thread) THEN "h_set2" ELSE "h_exit"
  /\ UNCHANGED <<aux, selected_device, leds, effect_thread, shutdown_event, threads, mainpc, call, mi, nsig>>

\* client.shutdown_event.set()
HandlerSet2 ==
  /\ sigpc = "h_set2"
  /\ shutdown_event' = TRUE
  /\ sigpc' = "h_join"
  /\ UNCHANGED <<aux, selected_device, leds, effect_thread, threads, mainpc, call, mi, nsig>>

\* client.effect_thread.join()
HandlerJoin_NoWait ==
  /\ sigpc = "h_join"
  /\ sigpc' = "h_exit"
  /\ UNCHANGED <<aux, selected_device, leds, effect_thread, shutdown_event, threads, mainpc, call, mi, nsig>>

HandlerJoin ==
  /\ sigpc = "h_join"
  /\ ~is_alive(effect_thread)
  /\ sigpc' = "h_exit"
  /\ UNCHANGED <<aux, selected_device, leds, effect_thread, shutdown_event, threads, mainpc, call, mi, nsig>>

\* sys.exit(0): SystemExit unwinds the main thread
HandlerExit ==
  /\ sigpc = "h_exit"
  /\ sigpc' = "none"
  /\ mainpc' = "exited"
  /\ UNCHANGED <<aux, selected_device, leds, effect_thread, shutdown_event, threads, call, mi, nsig>>

\* ------------------------------------------------------------ specification
Next ==
  \/ \E found \in BOOLEAN : selectDeviceByName(found)
  \/ stop
  \/ StopCheck
  \/ StopSet
  \/ StopJoin
  \/ StopClear
  \/ \E key \in Keys : setEffect(key)
  \/ SeUnknown
  \/ SeLooped
  \/ SeSingle
  \/ SeClear
  \/ SeCreate
  \/ SeStart
  \/ rainbow_iter
  \/ \E ok \in BOOLEAN : rainbow_show(ok)
  \/ \E t \in 1..Len(threads) : WorkerCheck(t)
  \/ \E t \in 1..Len(threads) : WorkerRender(t)
  \/ \E t \in 1..Len(threads) : \E ok \in BOOLEAN : WorkerShow(t, ok)
  \/ \E t \in 1..Len(threads) : WorkerWait(t)
  \/ Signal
  \/ HandlerSet
  \/ HandlerCheck
  \/ HandlerSet2
  \/ HandlerJoin
  \/ HandlerExit

Spec == Init /\ [][Next]_vars

\* one statement of a worker thread
WorkerNext ==
  \E t \in 1..Len(threads) :
    \/ WorkerCheck(t)
    \/ WorkerRender(t)
    \/ \E ok \in BOOLEAN : WorkerShow(t, ok)
    \/ WorkerWait(t)

\* one statement of the signal handler
HandlerNext == HandlerSet \/ HandlerCheck \/ HandlerSet2 \/ HandlerJoin \/ HandlerExit

\* the scheduler runs every started thread, and a join returns once its
\* thread has ended; calls and signals come when the environment sends them
FairSpec ==
  /\ Spec
  /\ WF_vars(WorkerNext)
  /\ WF_vars(StopJoin)
  /\ WF_vars(HandlerNext)

TypeOK ==
  /\ selected_device \in BOOLEAN
  /\ leds \in LedCounts
  /\ effect_thread \in 0..Len(threads)
  /\ shutdown_event \in BOOLEAN
  /\ Len(threads) <= MaxThreads
  /\ mi \in 0..leds
  /\ nsig \in 0..MaxSignals

\* ============================================================ PluginManager
\* a dict as Python keeps it: <<[key, val], ...>> in insertion order
DictKeys(d) == {d[i].key : i \in DOMAIN d}

DictGet(d, k) == d[CHOOSE i \in DOMAIN d : d[i].key = k].val

\* d[k] = v: a new key goes last, an existing key keeps its place
DictPut(d, k, v) ==
  IF k \in DictKeys(d)
    THEN [i \in DOMAIN d |-> IF d[i].key = k THEN [key |-> k, val |-> v] ELSE d[i]]
    ELSE Append(d, [key |-> k, val |-> v])

\* str(manifest_path) of the i-th path in sorted order
PathOf(i) == "plugins/" \o ToString(i) \o "/manifest.json"

\* one item of a manifest's "functions" list; named is FALSE when it has no "name"
Entry(n, l) == [name |-> n, named |-> TRUE, looped |-> l]
NamelessEntry(l) == [name |-> "", named |-> FALSE, looped |-> l]

\* one attribute of the plugin's module
Export(n, c) == [name |-> n, callable |-> c]

\* what a plugin directory holds: its manifest.json and its main file
File(j, n, d, m, x, fs, ex) ==
  [json |-> j, name |-> n, deps |-> d, main |-> m, fault |-> x, functions |-> fs, exports |-> ex]

PluginNames == {"a", "a.b"}

PlainFunctions == <<Entry("c", TRUE)>>
PlainExports == {Export("c", TRUE)}

\* the "functions" lists and module attributes tried
ModuleKinds ==
  { <<PlainFunctions, PlainExports>>,
    <<(<<Entry("c", TRUE), Entry("b.c", FALSE)>>), {Export("c", TRUE)}>>,
    <<(<<Entry("b.c", FALSE)>>), {Export("b.c", TRUE), Export("c", TRUE)}>>,
    <<(<<Entry("c", FALSE), NamelessEntry(TRUE)>>), {Export("c", TRUE)}>>,
    <<(<<Entry("c", FALSE)>>), {Export("c", FALSE)}>>,
    <<(<<>>), {Export("c", TRUE)}>> }

\* the directory contents tried
PluginDirs ==
       {File(j, "", 0, "ok", FALSE, <<>>, {}) : j \in {"invalid", "array"}}
  \cup {File("object", "", 0, "ok", FALSE, PlainFunctions, PlainExports)}
  \cup {File("object", n, 0, m, FALSE, PlainFunctions, PlainExports) :
          n \in PluginNames, m \in {"unset", "nofile"}}
  \cup {File("object", n, 0, "ok", TRUE, PlainFunctions, PlainExports) : n \in PluginNames}
  \cup {File("object", n, 0, "ok", FALSE, k[1], k[2]) : n \in PluginNames, k \in ModuleKinds}
  \cup {File("object", n, d, m, FALSE, PlainFunctions, PlainExports) :
          n \in PluginNames, d \in 1..MaxDeps, m \in {"ok", "nofile"}}

\* PluginManager.__init__ on a plugins directory
LoaderInit ==
  /\ CtlInit /\ leds = SmallLen
  /\ CzIdle /\ CycIdle
  /\ dirs \in UNION {[1..n -> PluginDirs] : n \in 0..MaxDirs}
  /\ manifests = <<>>
  /\ loaded = <<>>
  /\ load_errors = <<>>
  /\ installs = <<>>
  /\ executed = <<>>
  /\ warned = {}
  /\ pm = [pc |-> "discover", di |-> 1, li |-> 1, dj |-> 1, fj |-> 1, functions |-> <<>>]
  /\ catalog = <<>>

\* the plugin _load_all is at, and its directory
CurName == manifests[pm.li].key
CurDir == manifests[pm.li].val
CurFile == dirs[CurDir]

\* _discover_plugins: one manifest_path of the loop
Discover_StopsAtError ==
  /\ pm.pc = "discover" /\ pm.di <= Len(dirs)
  /\ LET f == dirs[pm.di] IN
       IF f.json # "object"
         THEN /\ load_errors' = DictPut(load_errors, PathOf(pm.di), "JSONDecodeError")
              /\ pm' = [pm EXCEPT !.di = Len(dirs) + 1]
              /\ UNCHANGED manifests
         ELSE /\ manifests' = IF f.name # "" THEN DictPut(manifests, f.name, pm.di) ELSE manifests
              /\ pm' = [pm EXCEPT !.di = @ + 1]
              /\ UNCHANGED load_errors
  /\ UNCHANGED <<ctl, czv, cycv, dirs, loaded, installs, executed, warned, catalog>>

Discover ==
  /\ pm.pc = "discover" /\ pm.di <= Len(dirs)
  /\ LET f == dirs[pm.di] IN
       CASE f.json = "invalid" ->
              /\ load_errors' = DictPut(load_errors, PathOf(pm.di), "JSONDecodeError")
              /\ UNCHANGED manifests
         [] f.json = "array" ->
              /\ load_errors' = DictPut(load_errors, PathOf(pm.di), "AttributeError")
              /\ UNCHANGED manifests
         [] OTHER ->
              /\ manifests' = IF f.name # "" THEN DictPut(manifests, f.name, pm.di) ELSE manifests
              /\ UNCHANGED load_errors
  /\ pm' = [pm EXCEPT !.di = @ + 1]
  /\ UNCHANGED <<ctl, czv, cycv, dirs, loaded, installs, executed, warned, catalog>>

\* the loop of _discover_plugins ends and _load_all begins
DiscoverEnd ==
  /\ pm.pc = "discover" /\ pm.di > Len(dirs)
  /\ pm' = [pm EXCEPT !.pc = "load", !.li = 1]
  /\ UNCHANGED <<ctl, czv, cycv, dirs, manifests, loaded, load_errors, installs, executed, warned, catalog>>

\* _load_all: for plugin_name in self._manifests.keys()
LoadNext ==
  /\ pm.pc = "load"
  /\ pm' = [pm EXCEPT !.pc = IF pm.li <= Len(manifests) THEN "read" ELSE "bundle"]
  /\ UNCHANGED <<ctl, czv, cycv, dirs, manifests, loaded, load_errors, installs, executed, warned, catalog>>

\* _load_plugin: the manifest is read again
LoadRead ==
  /\ pm.pc = "read"
  /\ pm' = [pm EXCEPT !.pc = "deps", !.dj = 1]
  /\ UNCHANGED <<ctl, czv, cycv, dirs, manifests, loaded, load_errors, installs, executed, warned, catalog>>

\* except Exception as e: self._load_errors[plugin_name] = e; return None
Fail(kind) ==
  /\ load_errors' = DictPut(load_errors, CurName, kind)
  /\ pm' = [pm EXCEPT !.pc = "load", !.li = @ + 1]

\* _install_dependencies: one package of the loop, pip succeeding or not
LoadInstall_IgnoresFailure(ok) ==
  /\ pm.pc = "deps" /\ pm.dj <= CurFile.deps
  /\ installs' = Append(installs, [plugin |-> CurName, dep |-> pm.dj, ok |-> ok])
  /\ pm' = [pm EXCEPT !.dj = @ + 1]
  /\ UNCHANGED load_errors
  /\ UNCHANGED <<ctl, czv, cycv, dirs, manifests, loaded, executed, warned, catalog>>

LoadInstall(ok) ==
  /\ pm.pc = "deps" /\ pm.dj <= CurFile.deps
  /\ installs' = Append(installs, [plugin |-> CurName, dep |-> pm.dj, ok |-> ok])
  /\ IF ok
       THEN /\ pm' = [pm EXCEPT !.dj = @ + 1]
            /\ UNCHANGED load_errors
       ELSE Fail("DependencyFailure")
  /\ UNCHANGED <<ctl, czv, cycv, dirs, manifests, loaded, executed, warned, catalog>>

\* no dependency is left (or none was declared)
LoadInstalled ==
  /\ pm.pc = "deps" /\ pm.dj > CurFile.deps
  /\ pm' = [pm EXCEPT !.pc = "main"]
  /\ UNCHANGED <<ctl, czv, cycv, dirs, manifests, loaded, load_errors, installs, executed, warned, catalog>>

\* main_file = manifest.get('main'); plugin_file.exists()
LoadMain ==
  /\ pm.pc = "main"
  /\ CASE CurFile.main = "unset"  -> Fail("ValueError")
       [] CurFile.main = "nofile" -> Fail("FileNotFoundError")
       [] OTHER -> /\ pm' = [pm EXCEPT !.pc = "exec"]
                   /\ UNCHANGED load_errors
  /\ UNCHANGED <<ctl, czv, cycv, dirs, manifests, loaded, installs, executed, warned, catalog>>

\* spec.loader.exec_module(module)
LoadExec ==
  /\ pm.pc = "exec"
  /\ executed' = Append(executed, CurDir)
  /\ IF CurFile.fault
       THEN Fail("ModuleFault")
       ELSE /\ pm' = [pm EXCEPT !.pc = "bind", !.fj = 1, !.functions = <<>>]
            /\ UNCHANGED load_errors
  /\ UNCHANGED <<ctl, czv, cycv, dirs, manifests, loaded, installs, warned, catalog>>

\* for func_spec in manifest.get('functions', []): one item of the loop
LoadBind ==
  /\ pm.pc = "bind" /\ pm.fj <= Len(CurFile.functions)
  /\ LET e == CurFile.functions[pm.fj] IN
       IF ~e.named
         THEN /\ Fail("TypeError")              \* hasattr(module, None)
              /\ UNCHANGED warned
         ELSE /\ IF \E x \in CurFile.exports : x.name = e.name
                   THEN /\ pm' = [pm EXCEPT
                                    !.fj = @ + 1,
                                    !.functions = DictPut(@, e.name,
                                       [name |-> e.name, looped |-> e.looped,
                                        callable |-> (CHOOSE x \in CurFile.exports : x.name = e.name).callable,
                                        plugin_module |-> CurDir])]
                        /\ UNCHANGED warned
                   ELSE /\ pm' = [pm EXCEPT !.fj = @ + 1]
                        /\ warned' = warned \cup {<<CurName, e.name>>}
              /\ UNCHANGED load_errors
  /\ UNCHANGED <<ctl, czv, cycv, dirs, manifests, loaded, installs, executed, catalog>>

\* plugin = Plugin(...); return plugin; self._loaded[plugin_name] = plugin
LoadCreate ==
  /\ pm.pc = "bind" /\ pm.fj > Len(CurFile.functions)
  /\ loaded' = DictPut(loaded, CurName,
                  [name |-> CurFile.name, functions |-> pm.functions, module |-> CurDir])
  /\ pm' = [pm EXCEPT !.pc = "load", !.li = @ + 1, !.functions = <<>>]
  /\ UNCHANGED <<ctl, czv, cycv, dirs, manifests, load_errors, installs, executed, warned, catalog>>

\* effect_key = f"{plugin_name}.{func_name}"
EffectKey_NoPrefix(plugin_name, func_name) == func_name

EffectKey(plugin_name, func_name) == plugin_name \o "." \o func_name

\* the inner loop of _bundle_effects, from the j-th function of one plugin
RECURSIVE BundleFunctions(_, _, _, _)
BundleFunctions(plugin_name, functions, j, acc) ==
  IF j > Len(functions)
    THEN acc
    ELSE BundleFunctions(plugin_name, functions, j + 1,
           DictPut(acc, EffectKey(plugin_name, functions[j].key), functions[j].val))

\* the outer loop of _bundle_effects, from the i-th plugin
RECURSIVE BundlePlugins(_, _, _)
BundlePlugins(plugins, i, acc) ==
  IF i > Len(plugins)
    THEN acc
    ELSE BundlePlugins(plugins, i + 1,
           BundleFunctions(plugins[i].key, plugins[i].val.functions, 1, acc))

\* self.effects = self._bundle_effects()
bundle_effects ==
  /\ pm.pc = "bundle"
  /\ catalog' = BundlePlugins(loaded, 1, <<>>)
  /\ pm' = [pm EXCEPT !.pc = "done"]
  /\ UNCHANGED <<ctl, czv, cycv, dirs, manifests, loaded, load_errors, installs, executed, warned>>

\* setEffect's lookup: self.effects[effect_name], KeyError -> ValueError
Lookup(effect_name) == IF effect_name \in DictKeys(catalog) THEN "found" ELSE "ValueError"

LoaderNext ==
  \/ Discover
  \/ DiscoverEnd
  \/ LoadNext
  \/ LoadRead
  \/ \E ok \in BOOLEAN : LoadInstall(ok)
  \/ LoadInstalled
  \/ LoadMain
  \/ LoadExec
  \/ LoadBind
  \/ LoadCreate
  \/ bundle_effects

LoaderSpec == LoaderInit /\ [][LoaderNext]_vars

\* ======================================================= CombinedLinearZone
\* colour values: the j-th colour sub-zone i held at construction, the
\* fallback RGBColor(0, 0, 0), and the k-th colour of a pattern written later
ZoneColor(i, j) == <<"zone", i, j>>
Black == <<"black", 0, 0>>
PatternColor(k) == <<"pattern", k, 0>>

\* a sub-zone: z.leds has l items, z.colors has m
SubZone(i, l, m) == [leds |-> l, colors |-> [j \in 1..m |-> ZoneColor(i, j)]]

\* s[a:b] of a Python list
Slice(s, a, b) == SubSeq(s, a + 1, IF b < Len(s) THEN b ELSE Len(s))

\* CombinedLinearZone(zones) is called on one or more sub-zones
ZoneInit ==
  /\ CtlInit /\ leds = SmallLen
  /\ PmIdle /\ CycIdle
  /\ \E n \in 1..MaxZones :
       \E ls \in [1..n -> 1..MaxZoneLeds], ms \in [1..n -> 0..MaxZoneLeds] :
          zones = [i \in 1..n |-> SubZone(i, ls[i], ms[i])]
  /\ colors = <<>>
  /\ index = 0
  /\ zi = 1
  /\ sent = <<>>
  /\ czpc = "init"

\* __init__: one z of the loop
Extend ==
  /\ czpc = "init" /\ zi <= Len(zones)
  /\ colors' = colors \o (IF zones[zi].colors # <<>>
                            THEN zones[zi].colors
                            ELSE [k \in 1..zones[zi].leds |-> Black])
  /\ zi' = zi + 1
  /\ UNCHANGED <<ctl, pmv, cycv, zones, index, sent, czpc>>

\* __init__ returns
Built ==
  /\ czpc = "init" /\ zi > Len(zones)
  /\ czpc' = "ready"
  /\ UNCHANGED <<ctl, pmv, cycv, zones, colors, index, zi, sent>>

\* an effect assigns zone.colors[i] for every i
WritePattern ==
  /\ czpc = "ready"
  /\ colors' = [k \in DOMAIN colors |-> PatternColor(k)]
  /\ czpc' = "written"
  /\ UNCHANGED <<ctl, pmv, cycv, zones, index, zi, sent>>

\* show(): index = 0
show ==
  /\ czpc \in {"ready", "written"}
  /\ index' = 0
  /\ zi' = 1
  /\ sent' = <<>>
  /\ czpc' = "show"
  /\ UNCHANGED <<ctl, pmv, cycv, zones, colors>>

\* show(): one z of the loop
ShowZone ==
  /\ czpc = "show" /\ zi <= Len(zones)
  /\ LET led_count == zones[zi].leds
         segment == Slice(colors, index, index + led_count)
     IN  /\ sent' = Append(sent, segment)
         /\ index' = index + led_count
  /\ zi' = zi + 1
  /\ UNCHANGED <<ctl, pmv, cycv, zones, colors, czpc>>

\* show() returns
Shown ==
  /\ czpc = "show" /\ zi > Len(zones)
  /\ czpc' = "shown"
  /\ UNCHANGED <<ctl, pmv, cycv, zones, colors, index, zi, sent>>

ZoneNext ==
  \/ Extend
  \/ Built
  \/ WritePattern
  \/ show
  \/ ShowZone
  \/ Shown

ZoneSpec == ZoneInit /\ [][ZoneNext]_vars

\* ============================================================= rainbowCycle
\* self.step = len(self.zone.colors)
step == hn

\* the colour list holds no hue of this call yet
NoHue == 0 - 1

\* the worker enters rainbowCycle(zone, step, shutdown_event): offset = 0
CycleInit ==
  /\ CtlInit /\ leds = SmallLen
  /\ PmIdle /\ CzIdle
  /\ hn \in 1..MaxHueLen
  /\ hues = [i \in 1..hn |-> NoHue]
  /\ offset = 0
  /\ hi = 0
  /\ passes = 0
  /\ hpc = "check"

\* while not shutdown_event.is_set(), the event clear: for i in range(...)
CycleEnter ==
  /\ hpc = "check" /\ passes < MaxPasses
  /\ hpc' = "render"
  /\ hi' = 0
  /\ UNCHANGED <<ctl, pmv, czv, hn, hues, offset, passes>>

\* while not shutdown_event.is_set(), the event set: the function returns
CycleCancel ==
  /\ hpc = "check"
  /\ hpc' = "done"
  /\ UNCHANGED <<ctl, pmv, czv, hn, hues, offset, hi, passes>>

\* hue = (i * step + offset) % 360; zone.colors[i] = RGBColor.fromHSV(hue, 100, 100)
CycleRender_NoWrap ==
  /\ hpc = "render" /\ hi < hn
  /\ LET hue == hi * step + offset
     IN  hues' = [hues EXCEPT ![hi + 1] = hue]
  /\ hi' = hi + 1
  /\ UNCHANGED <<ctl, pmv, czv, hn, offset, passes, hpc>>

CycleRender ==
  /\ hpc = "render" /\ hi < hn
  /\ LET hue == (hi * step + offset) % HueWrap
     IN  hues' = [hues EXCEPT ![hi + 1] = hue]
  /\ hi' = hi + 1
  /\ UNCHANGED <<ctl, pmv, czv, hn, offset, passes, hpc>>

\* the for loop is over
CycleRendered ==
  /\ hpc = "render" /\ hi = hn
  /\ hpc' = "show"
  /\ UNCHANGED <<ctl, pmv, czv, hn, hues, offset, hi, passes>>

\* zone.show(); offset += 5
CycleShow ==
  /\ hpc = "show"
  /\ passes' = passes + 1
  /\ offset' = offset + OffsetStep
  /\ hpc' = "wait"
  /\ UNCHANGED <<ctl, pmv, czv, hn, hues, hi>>

\* shutdown_event.wait(0.05) returns
CycleWait ==
  /\ hpc = "wait"
  /\ hpc' = "check"
  /\ UNCHANGED <<ctl, pmv, czv, hn, hues, offset, hi, passes>>

CycleNext ==
  \/ CycleEnter
  \/ CycleCancel
  \/ CycleRender
  \/ CycleRendered
  \/ CycleShow
  \/ CycleWait

CycleSpec == CycleInit /\ [][CycleNext]_vars

\* ================================================================== claims
InSingle == mainpc \in {"rb_iter", "rb_show"}

\* a render pass is in progress: some LED written, show() not yet returned
MainWriting == (mainpc = "rb_iter" /\ mi > 0) \/ mainpc = "rb_show"

WorkerWriting(t) ==
  /\ threads[t].st = "alive"
  /\ (threads[t].pc = "w_render" /\ threads[t].i > 0) \/ threads[t].pc = "w_show"

\* a statement of the foreground context outside the signal handler
MainStep ==
  /\ sigpc = "none" /\ sigpc' = "none"
  /\ <<mainpc, mi, call>>' # <<mainpc, mi, call>>

Resolvable(k) == k \in DOMAIN effects
LoopedKey(k) == Resolvable(k) /\ effects[k].looped
SingleKey(k) == Resolvable(k) /\ ~effects[k].looped

Controller == <<effect_thread, shutdown_event, threads>>

\* C1: in every reachable state at most one effect worker thread is alive,
\* whatever mix of looped, single-shot and unknown keys setEffect was given.
C1_AtMostOneWorker == Cardinality(AliveThreads) <= 1

\* C1 witness: a second worker is alive after an earlier one has exited
C1_Witness ==
  /\ Len(threads) >= 2
  /\ threads[1].st = "done"
  /\ threads[2].st = "alive"
  /\ threads[1].key # threads[2].key

\* C2: for every resolvable key the running worker is cancelled and joined
\* before the new effect executes, so a single-shot effect never runs on the
\* caller while a worker is alive and no two invocations are inside a render
\* pass on the device's zone at the same time.
C2_StopBeforeAnyEffect ==
  /\ InSingle => AliveThreads = {}
  /\ Cardinality(AliveThreads) <= 1
  /\ ~(MainWriting /\ \E t \in 1..Len(threads) : WorkerWriting(t))

\* C3: when a looped setEffect follows a running looped effect, the first
\* worker has exited before the event is cleared and before the second thread
\* is created or started, and the event was set when the stop returned.
C3_StopBeforeStart ==
  /\ mainpc \in {"se_clear", "se_create", "se_start"} => AliveThreads = {}
  /\ (mainpc = "se_clear" /\ call.stopped) =>
        /\ shutdown_event
        /\ threads[Len(threads)].st = "done"

\* C3 witness: the second worker, of a different key, was started after the
\* first one was stopped and exited on seeing the event set
C3_Witness ==
  /\ Len(threads) >= 2
  /\ call.op = "setEffect" /\ call.stopped /\ mainpc = "idle"
  /\ threads[Len(threads) - 1].exit = "cancelled"
  /\ threads[Len(threads) - 1].key # threads[Len(threads)].key
  /\ threads[Len(threads)].st = "alive"

\* C4: a setEffect of a single-shot key runs the effect on the caller: no
\* statement of the call changes the worker handle, the event or any thread
\* (so none is created or started), and when the call returns normally the
\* effect has run to its show().
C4_SingleShotOnCaller ==
  /\ [](( /\ mainpc = "idle" /\ call.op = "setEffect" /\ SingleKey(call.key)
          /\ selected_device /\ call.raised = "none") => call.shown)
  /\ [][( /\ MainStep
          /\ call'.op = "setEffect" /\ SingleKey(call'.key)
          /\ mainpc \in {"idle", "se_lookup", "rb_iter", "rb_show"})
        => UNCHANGED Controller]_vars

\* C4 witness: a single-shot call from Idle has returned normally
C4_Witness ==
  /\ mainpc = "idle" /\ call.op = "setEffect" /\ SingleKey(call.key)
  /\ call.shown /\ call.raised = "none"
  /\ AliveThreads = {}
  /\ shutdown_event

\* C5: with a device selected, setEffect of a key that is not in the catalog
\* raises ValueError("Unknown effect") at the lookup, and no statement of the
\* call changes the worker handle, the event or any thread.
C5_UnknownRejected ==
  [][( /\ MainStep
       /\ call'.op = "setEffect" /\ ~Resolvable(call'.key)
       /\ mainpc \in {"idle", "se_lookup"})
     => /\ UNCHANGED Controller
        /\ mainpc = "se_lookup" => (mainpc' = "idle" /\ call'.raised = "ValueError")]_vars

\* C5 witness: an unknown key was rejected while a worker was running
C5_Witness ==
  /\ mainpc = "idle" /\ call.op = "setEffect" /\ ~Resolvable(call.key)
  /\ call.raised = "ValueError"
  /\ AliveThreads # {}
  /\ ~shutdown_event

\* C6: the only error setEffect raises to its caller is the unknown-effect
\* error, and only for a key that is not in the catalog.
C6_OnlyUnknownRaised ==
  (call.op = "setEffect" /\ call.raised # "none") =>
     (call.raised = "ValueError" /\ ~Resolvable(call.key))

\* _stop_current_effect has returned after finding a worker alive
StopReturned ==
  /\ call.stopped
  /\ \/ call.op = "stop" /\ mainpc = "idle"
     \/ call.op = "setEffect" /\ mainpc = "se_clear"

\* C7 (as stated): after stop() returns from Running the worker has terminated,
\* the handle is None and the event is no longer set; the same once a worker
\* has terminated on its own.
C7_BothFieldsCleared ==
  /\ StopReturned => (AliveThreads = {} /\ effect_thread = 0 /\ ~shutdown_event)
  /\ \A t \in 1..Len(threads) :
        (threads[t].exit = "fault" /\ sigpc = "none" /\ mainpc = "idle")
           => (effect_thread = 0 /\ ~shutdown_event)

\* C7 (amended): after stop() returns from Running the worker has terminated
\* and the handle is None, while the event is still set; a worker that
\* terminates leaves the handle and the event as they were.
C7_HandleClearedSignalSet ==
  /\ [](StopReturned => (AliveThreads = {} /\ effect_thread = 0 /\ shutdown_event))
  /\ [][\A t \in 1..Len(threads) :
          (threads[t].st = "alive" /\ threads'[t].st = "done")
             => UNCHANGED <<effect_thread, shutdown_event>>]_vars

\* C7 witness: a direct stop() has returned from Running
C7_Witness ==
  /\ call.op = "stop" /\ call.stopped /\ mainpc = "idle"
  /\ Len(threads) >= 1 /\ threads[Len(threads)].exit = "cancelled"

\* C8: _stop_current_effect with no handle or a dead one goes straight to its
\* return: it does not set the event, does not wait, and changes no field.
C8_StopIdleNoOp ==
  [][( /\ MainStep /\ mainpc = "stop_check" /\ ~is_alive(effect_thread))
     => /\ mainpc' = AfterStop
        /\ call' = call
        /\ UNCHANGED Controller]_vars

\* C8 witness: stop() has returned on a handle whose worker had died
C8_Witness ==
  /\ call.op = "stop" /\ ~call.stopped /\ mainpc = "idle"
  /\ effect_thread # 0 /\ threads[effect_thread].st = "done"
  /\ ~shutdown_event

\* the most recently created thread before the current one died of a fault
PrevFaulted == Len(threads) >= 2 /\ threads[Len(threads) - 1].exit = "fault"

\* C9: a fault in a looped effect ends only its worker; the next looped
\* setEffect does not wait on the dead worker, and its start makes exactly one
\* worker alive, with the event not set.
C9_RecoverAfterFault ==
  /\ [][\A t \in 1..Len(threads) :
          (threads[t].st = "alive" /\ threads'[t].exit = "fault")
             => /\ \A u \in 1..Len(threads) : u # t => threads'[u] = threads[u]
                /\ UNCHANGED <<effect_thread, shutdown_event, mainpc, call>>]_vars
  /\ [][( /\ MainStep /\ mainpc = "stop_check"
          /\ effect_thread # 0 /\ threads[effect_thread].exit = "fault")
        => mainpc' = AfterStop]_vars
  /\ [][(MainStep /\ mainpc = "se_start" /\ PrevFaulted)
        => /\ ~shutdown_event
           /\ AliveThreads' = {effect_thread}]_vars

\* C9 witness: a new worker runs after the previous one faulted, and the
\* setEffect that started it did not go through the join
C9_Witness ==
  /\ PrevFaulted
  /\ mainpc = "idle" /\ call.op = "setEffect" /\ ~call.stopped
  /\ threads[Len(threads)].st = "alive"
  /\ ~shutdown_event

\* C10: when the process exits through the signal handler the event is set
\* and no worker is alive, wherever the signal interrupted the main thread.
C10_NoWorkerAbandoned ==
  mainpc = "exited" => (shutdown_event /\ AliveThreads = {})

\* C10 witness: the signal arrived between the creation of the second thread
\* and its start, after the first worker had been stopped
C10_Witness ==
  /\ mainpc = "exited"
  /\ Len(threads) >= 2
  /\ threads[1].exit = "cancelled"
  /\ threads[2].st = "created"

\* C11: a looped effect reads the event only at the loop test: with the event
\* set the test ends the worker, a pass that has begun is never cut short,
\* and a pass begins only from a test that found the event clear; under fair
\* scheduling a worker whose event is set ends and the join of
\* _stop_current_effect returns.
C11_CooperativeStop ==
  /\ [][\A t \in 1..Len(threads) :
          (threads[t].st = "alive" /\ threads'[t] # threads[t]) =>
             /\ (threads[t].pc = "w_check" /\ shutdown_event)
                   => (threads'[t].st = "done" /\ threads'[t].exit = "cancelled")
             /\ threads[t].pc \in {"w_render", "w_show", "w_wait"}
                   => threads'[t].exit # "cancelled"
             /\ (threads'[t].pc = "w_render" /\ threads[t].pc # "w_render")
                   => (threads[t].pc = "w_check" /\ ~shutdown_event)
             /\ threads[t].pc = "w_wait" => threads'[t].pc = "w_check"]_vars
  /\ \A t \in 1..MaxThreads :
        (t <= Len(threads) /\ threads[t].st = "alive" /\ shutdown_event)
           ~> (t <= Len(threads) /\ threads[t].st = "done")
  /\ (mainpc = "stop_join") ~> (mainpc # "stop_join")

\* C11 witness: a rainbowCycle worker and an alternate worker were each
\* cancelled in the middle of their loop and ended at the loop test
C11_Witness ==
  /\ Len(threads) >= 2
  /\ \E t, u \in 1..Len(threads) :
        /\ threads[t].func = "rainbowCycle" /\ threads[t].exit = "cancelled"
        /\ threads[u].func = "alternate" /\ threads[u].exit = "cancelled"
  /\ mainpc = "idle" /\ call.op = "stop" /\ call.stopped

\* ------------------------------------------------------------ loader claims
LoadPassOver == pm.pc \in {"bundle", "done"}

\* the directory the registry holds for a registered name
DirOf(n) == DictGet(manifests, n)

InstallFailed(n) == \E i \in DOMAIN installs : installs[i].plugin = n /\ ~installs[i].ok

\* every step of the load of registered plugin n succeeds
StepsSucceed(n) ==
  /\ ~InstallFailed(n)
  /\ dirs[DirOf(n)].main = "ok"
  /\ ~dirs[DirOf(n)].fault
  /\ \A j \in DOMAIN dirs[DirOf(n)].functions : dirs[DirOf(n)].functions[j].named

WasExecuted(d) == \E i \in DOMAIN executed : executed[i] = d

\* C12: after the load pass a malformed manifest is a discovery error and
\* keeps no other directory out of the registry; the catalog of loaded
\* plugins holds exactly the registered plugins whose every step succeeded,
\* and every other registered plugin is in the error report only.
C12_FailureContained ==
  LoadPassOver =>
    /\ \A i \in DOMAIN dirs :
          /\ dirs[i].json # "object" =>
                /\ PathOf(i) \in DictKeys(load_errors)
                /\ \A m \in DOMAIN manifests : manifests[m].val # i
          /\ (dirs[i].json = "object" /\ dirs[i].name # "") =>
                dirs[i].name \in DictKeys(manifests)
    /\ DictKeys(loaded) = {n \in DictKeys(manifests) : StepsSucceed(n)}
    /\ \A n \in DictKeys(manifests) :
          ~StepsSucceed(n) => (n \in DictKeys(load_errors) /\ n \notin DictKeys(loaded))
    /\ DictKeys(loaded) \cap DictKeys(load_errors) = {}
    /\ pm.pc = "done" =>
          \A k \in DOMAIN catalog :
             \E n \in DictKeys(loaded) : DirOf(n) = catalog[k].val.plugin_module

\* C12 witness: the first directory's manifest is malformed and is in the
\* error report; the plugin of the second directory is the whole catalog
C12_Witness ==
  /\ pm.pc = "done"
  /\ Len(dirs) >= 2
  /\ dirs[1].json = "invalid"
  /\ PathOf(1) \in DictKeys(load_errors)
  /\ DictKeys(loaded) = {dirs[2].name}
  /\ Len(catalog) >= 1

\* C13: a plugin whose module loads is loaded, its function set is exactly
\* the declared entries the module exports a callable for, each with its
\* declared looped flag, and every other declared entry was warned about.
C13_ExactFunctionSet ==
  pm.pc = "done" =>
    \A n \in DictKeys(manifests) :
       (WasExecuted(DirOf(n)) /\ ~dirs[DirOf(n)].fault) =>
          LET f == dirs[DirOf(n)]
              declared == {f.functions[j] : j \in DOMAIN f.functions}
              bindable == {e \in declared : e.named /\ Export(e.name, TRUE) \in f.exports}
          IN  /\ n \in DictKeys(loaded)
              /\ LET fs == DictGet(loaded, n).functions
                 IN  {<<fs[j].key, fs[j].val.looped>> : j \in DOMAIN fs}
                        = {<<e.name, e.looped>> : e \in bindable}
              /\ \A e \in declared \ bindable : <<n, e.name>> \in warned

\* the plugin and function names looked up: those of the plugins tried and
\* one that no directory declares
LookupPlugins == PluginNames \cup {"zz"}
LookupFunctions == {"c", "b.c", "d"}

\* the (plugin, function) pairs of loaded plugin i
PairsOf(i) == {<<loaded[i].key, loaded[i].val.functions[j].key>> : j \in DOMAIN loaded[i].val.functions}

AllLoadedPairs == UNION {PairsOf(i) : i \in DOMAIN loaded}

RECURSIVE InstallsOf(_, _)
InstallsOf(n, i) ==
  IF i > Len(installs) THEN <<>>
  ELSE (IF installs[i].plugin = n THEN <<installs[i]>> ELSE <<>>) \o InstallsOf(n, i + 1)

\* C17: a plugin's dependencies are installed in declared order, none after
\* a failed one; its main entry is resolved and its code executed only after
\* all of them installed; a failed install records the plugin as failed,
\* keeps it out of the catalog and its code unexecuted, and the pass goes on
\* to every other registered plugin.
C17_DependenciesFirst ==
  /\ \A n \in DictKeys(manifests) :
        LET r == InstallsOf(n, 1) IN
          /\ Len(r) <= dirs[DirOf(n)].deps
          /\ \A i \in DOMAIN r : r[i].dep = i /\ (i < Len(r) => r[i].ok)
          /\ InstallFailed(n) =>
                /\ n \in DictKeys(load_errors)
                /\ DictGet(load_errors, n) = "DependencyFailure"
                /\ n \notin DictKeys(loaded)
                /\ ~WasExecuted(DirOf(n))
          /\ (WasExecuted(DirOf(n)) \/ n \in DictKeys(loaded)) =>
                (Len(r) = dirs[DirOf(n)].deps /\ ~InstallFailed(n))
  /\ pm.pc \in {"main", "exec"} =>
        (Len(InstallsOf(CurName, 1)) = CurFile.deps /\ ~InstallFailed(CurName))
  /\ LoadPassOver =>
        \A n \in DictKeys(manifests) :
           /\ n \in DictKeys(loaded) \cup DictKeys(load_errors)
           /\ dirs[DirOf(n)].deps > 0 => Len(InstallsOf(n, 1)) >= 1

\* C17 witness: the first plugin declares two dependencies and its first
\* install failed; the plugin after it was loaded
C17_Witness ==
  /\ pm.pc = "done"
  /\ Len(manifests) = 2
  /\ dirs[manifests[1].val].deps = 2
  /\ InstallsOf(manifests[1].key, 1) = <<[plugin |-> manifests[1].key, dep |-> 1, ok |-> FALSE]>>
  /\ manifests[2].key \in DictKeys(loaded)
  /\ dirs[manifests[2].val].deps = 2

\* C18: after discovery every manifest file is in exactly one place: the
\* registry maps its name to its path, or a discovery error is recorded
\* under its path.
C18_EveryFileAccounted ==
  pm.pc # "discover" =>
    \A i \in DOMAIN dirs :
       LET registered == \E m \in DOMAIN manifests :
                            manifests[m] = [key |-> dirs[i].name, val |-> i]
           reported == PathOf(i) \in DictKeys(load_errors)
       IN  registered # reported

\* C20: the effect registry has one entry per (plugin, function) pair of
\* the loaded plugins, and the key built from a pair resolves to the
\* function of that pair.
C20_KeysDistinct ==
  pm.pc = "done" =>
    /\ Len(catalog) = Cardinality(AllLoadedPairs)
    /\ \A i \in DOMAIN loaded :
          \A j \in DOMAIN loaded[i].val.functions :
             DictGet(catalog, EffectKey(loaded[i].key, loaded[i].val.functions[j].key))
                = loaded[i].val.functions[j].val

\* ------------------------------------------------------------- zone claims
\* the segments sent, joined in order
RECURSIVE Joined(_, _)
Joined(segs, i) == IF i > Len(segs) THEN <<>> ELSE segs[i] \o Joined(segs, i + 1)

\* LED counts of the sub-zones before sub-zone i, added up
RECURSIVE LedsBefore(_)
LedsBefore(i) == IF i <= 1 THEN 0 ELSE LedsBefore(i - 1) + zones[i - 1].leds

\* C15: show() sends each sub-zone, in order, the piece of the combined
\* buffer that starts where the previous piece ended and is as long as the
\* sub-zone's LED count, and the pieces joined are the whole buffer.
C15_SegmentsPartitionBuffer ==
  czpc = "shown" =>
    /\ Len(sent) = Len(zones)
    /\ \A i \in DOMAIN zones :
          /\ Len(sent[i]) = zones[i].leds
          /\ \A j \in 1..zones[i].leds : sent[i][j] = colors[LedsBefore(i) + j]
    /\ Joined(sent, 1) = colors

\* ------------------------------------------------------------ cycle claims
\* C16: when pass k is shown, LED i holds the hue (i * N + 5 * k) mod 360;
\* on a zone of 4 LEDs the first pass shows the hues 0, 4, 8, 12.
C16_HueFormula ==
  hpc = "show" =>
    /\ \A i \in 0..(hn - 1) : hues[i + 1] = (i * hn + 5 * passes) % 360
    /\ \A i \in 1..(hn - 1) :
          hues[i + 1] = (hues[i] + hn) % 360
    /\ \A i \in 1..hn : hues[i] \in 0..359
    /\ (hn = 4 /\ passes = 0) => hues = <<0, 4, 8, 12>>

\* C16 witness: the fourth pass on a 20-LED zone is shown, with the hues of
\* the last two LEDs wrapped past 360
C16_Witness ==
  /\ hpc = "show"
  /\ hn = 20
  /\ passes = 3
  /\ offset = 15
  /\ hues[18] = 355
  /\ hues[19] = 15
  /\ hues[20] = 35

\* C19: a rainbow call on a selected device whose show() does not fail
\* returns without raising, after exactly one show().
C19_RainbowOnePass ==
  ( /\ mainpc = "idle" /\ call.op = "setEffect" /\ selected_device
    /\ Resolvable(call.key) /\ effects[call.key].func = "rainbow"
    /\ call.raised # "DeviceError")
  => (call.raised = "none" /\ call.shown)

====
